---- MODULE Spec2Model ----
(***************************************************************************)
(* IngressGatewayPortAnalyzer (galley/pkg/config/analysis/analyzers/       *)
(* gateway/gateway.go): for every Gateway of a snapshot, the TCP ports of  *)
(* the Services that select the Pods the Gateway selects are collected,    *)
(* and every declared server port of the Gateway is checked against them.  *)
(*                                                                         *)
(* The snapshot (gateways, pods, services) is fixed by Init and read-only. *)
(* One action per step of Analyze / analyzeGateway:                        *)
(*   Analyze          start of a pass (a fresh analysis context)           *)
(*   BeginGateway     the ForEach visitor calls analyzeGateway (l.69-81)   *)
(*   VisitPod         the pod visitor, inner service scan included         *)
(*   ReportNotFound   l.109-117                                            *)
(*   UseDefaultPorts  l.109-120                                            *)
(*   PortsFound       l.109 false                                          *)
(*   CheckServer      one iteration of the loop of l.124-131               *)
(*   EndGateway       the server loop is over, analyzeGateway returns      *)
(*   VisitorReturn    the gateway visitor returns true to ForEach (l.65)   *)
(*   EndAnalyze       the ForEach over gateways is exhausted               *)
(***************************************************************************)
EXTENDS Integers, Sequences, FiniteSets, TLC

\* ------------------------------------------------------------------ bounds
MaxGateways == 2
MaxServers == 2
MaxPodsAndServices == 3

\* --------------------------------------------------------- label maps
\* A label map / selector map (map[string]string) is a function from the
\* keys it holds to their values.
EmptyLabels == [k \in {} |-> ""]
SysLabels == [istio |-> "ingressgateway"]
AppLabels == [app |-> "gw"]
SysAppLabels == [app |-> "gw", istio |-> "ingressgateway"]
OtherLabels == [istio |-> "other"]

\* Label keys in the order sort.Sort(ByKey(...)) gives them.
KeyOrder == <<"app", "istio">>

\* Go map lookup: the zero value "" for a key that is absent.
Lookup(m, k) == IF k \in DOMAIN m THEN m[k] ELSE ""

\* k8s_labels.SelectorFromSet(set): one Equals requirement per pair, sorted
\* by key; the empty (or nil) set gives the empty requirement list.
RECURSIVE RequirementsFrom(_, _)
RequirementsFrom(set, i) ==
    IF i > Len(KeyOrder) THEN <<>>
    ELSE (IF KeyOrder[i] \in DOMAIN set
             THEN <<[key |-> KeyOrder[i], value |-> set[KeyOrder[i]]]>>
             ELSE <<>>) \o RequirementsFrom(set, i + 1)

SelectorFromSet(set) == RequirementsFrom(set, 1)

\* Requirement.Matches for the Equals operator: the key is present and its
\* value is the required one.
RequirementMatches(req, labels) ==
    /\ req.key \in DOMAIN labels
    /\ labels[req.key] = req.value

\* Mutant of Matches: a selector without requirements matches nothing.
RECURSIVE MatchesFromOrNothing(_, _, _)
MatchesFromOrNothing(selector, labels, i) ==
    IF i > Len(selector) THEN TRUE
    ELSE IF ~RequirementMatches(selector[i], labels) THEN FALSE
    ELSE MatchesFromOrNothing(selector, labels, i + 1)

MatchesNothingWhenEmpty(selector, labels) ==
    /\ Len(selector) > 0
    /\ MatchesFromOrNothing(selector, labels, 1)

\* internalSelector.Matches: every requirement matches (none: match all).
RECURSIVE MatchesFrom(_, _, _)
MatchesFrom(selector, labels, i) ==
    IF i > Len(selector) THEN TRUE
    ELSE IF ~RequirementMatches(selector[i], labels) THEN FALSE
    ELSE MatchesFrom(selector, labels, i + 1)

Matches(selector, labels) == MatchesFrom(selector, labels, 1)

\* internalSelector.String(): "k=v" joined by ",".
RECURSIVE SelectorStringFrom(_, _)
SelectorStringFrom(selector, i) ==
    IF i > Len(selector) THEN ""
    ELSE (IF i > 1 THEN "," ELSE "")
         \o selector[i].key \o "=" \o selector[i].value
         \o SelectorStringFrom(selector, i + 1)

SelectorString(selector) == SelectorStringFrom(selector, 1)

\* uint32(port.Port) of an int32: the value itself when it is not negative,
\* the value plus 2^32 otherwise.
Uint32(n) == IF n >= 0 THEN n ELSE ((n + 2147483647) + 2147483647) + 2

\* ------------------------------------------------------------ snapshot
Namespaces == {"istio-system", "default"}

\* A v1.ServicePort: Port and Protocol.
TCP80 == [port |-> 80, protocol |-> "TCP"]
UDP80 == [port |-> 80, protocol |-> "UDP"]
TCP8080 == [port |-> 8080, protocol |-> "TCP"]

\* A Pod: ObjectMeta.Namespace and ObjectMeta.Labels.
PodUniverse ==
    [namespace : Namespaces, labels : {SysLabels, AppLabels, SysAppLabels}]

\* A Service: its namespace, ServiceSpec.Selector and ServiceSpec.Ports.
ServiceUniverse ==
    [namespace : Namespaces,
     selector : {EmptyLabels, SysLabels, AppLabels},
     ports : {<<TCP80>>, <<UDP80, TCP8080>>}]

\* A Server's Port is a pointer: the empty set is nil, {n} is a Port whose
\* Number is n.
ServerUniverse == [port : {{}, {80}, {443}, {31400}, {15443}, {8080}}]

GatewaySelectors ==
    {EmptyLabels, SysLabels, AppLabels, SysAppLabels, OtherLabels}

SeqsUpTo(S, n) == UNION {[1..k -> S] : k \in 0..n}

\* A Gateway: the namespace of its resource, Selector and Servers.
\* Gateways with every selector and every server list.
GatewayUniverse ==
    [namespace : {"default"},
     selector : GatewaySelectors,
     servers : SeqsUpTo(ServerUniverse, MaxServers)]

\* Gateways with every selector, in either namespace, and one server list:
\* a port outside the default table, a nil port and a port of the table.
ProbeServers == <<[port |-> {8080}], [port |-> {}], [port |-> {80}]>>
ProbeGateways ==
    [namespace : Namespaces, selector : GatewaySelectors,
     servers : {ProbeServers}]

\* Gateways with every selector and one server.
ShortGateways ==
    [namespace : {"default"},
     selector : GatewaySelectors,
     servers : {<<[port |-> {80}]>>, <<[port |-> {8080}]>>}]

\* Pods and services the gateways of GatewayUniverse and ShortGateways are
\* analysed against.
SysPod == [namespace |-> "istio-system", labels |-> SysLabels]
AppPod == [namespace |-> "default", labels |-> AppLabels]
SysAppPod == [namespace |-> "default", labels |-> SysAppLabels]
Sys8080Service ==
    [namespace |-> "istio-system", selector |-> SysLabels,
     ports |-> <<UDP80, TCP8080>>]
SysUDPService ==
    [namespace |-> "istio-system", selector |-> SysLabels,
     ports |-> <<UDP80>>]
App8080Service ==
    [namespace |-> "default", selector |-> AppLabels,
     ports |-> <<UDP80, TCP8080>>]
App80Service ==
    [namespace |-> "default", selector |-> AppLabels, ports |-> <<TCP80>>]
Contexts ==
    {[pods |-> {}, services |-> {Sys8080Service}],
     [pods |-> {SysPod}, services |-> {Sys8080Service}],
     [pods |-> {SysPod}, services |-> {SysUDPService}],
     [pods |-> {AppPod}, services |-> {App8080Service}],
     [pods |-> {SysPod, SysAppPod},
      services |-> {Sys8080Service, App80Service}]}

SubsetsUpTo(S, n) == {T \in SUBSET S : Cardinality(T) <= n}

\* --------------------------------------------------------------- state
VARIABLES
    gateways,       \* the snapshot's Gateway collection, in ForEach order
    pods,           \* the snapshot's Pod collection
    services,       \* the snapshot's Service collection
    defaultIngressGatewayPorts,  \* the package-level map (its key set)
    pc,             \* where the pass is
    gi,             \* index of the gateway being (or last) visited
    visited,        \* pods the pod ForEach has handed to its visitor
    servicePorts,   \* which map servicePorts refers to: "local" | "default"
    localPorts,     \* key set of the map made at l.77
    gwSelectorMatches,
    si,             \* index of the next server of the loop at l.124
    reports,        \* what c.Report received in this pass, in order
    evaluated,      \* per analyzeGateway call of this pass: the gateway and
                    \* the port set its server loop ran against
    done,           \* a pass has finished
    prev            \* reports and evaluated of the last finished pass

vars == <<gateways, pods, services, defaultIngressGatewayPorts, pc, gi,
          visited, servicePorts, localPorts, gwSelectorMatches, si, reports,
          evaluated, done, prev>>

snapshot == <<gateways, pods, services>>

gw == gateways[gi]

\* The key set of the map the variable servicePorts refers to.
ServicePortsMap ==
    IF servicePorts = "default" THEN defaultIngressGatewayPorts ELSE localPorts

\* msg.NewReferencedResourceNotFound(r, reftype, refval)
NewReferencedResourceNotFound(r, reftype, refval) ==
    [kind |-> "ReferencedResourceNotFound", origin |-> r,
     reftype |-> reftype, selector |-> refval, port |-> 0]

\* msg.NewGatewayPortNotOnWorkload(r, selector, port)
NewGatewayPortNotOnWorkload(r, selector, port) ==
    [kind |-> "GatewayPortNotOnWorkload", origin |-> r,
     reftype |-> "", selector |-> selector, port |-> port]

\* The snapshot analysed: one probe gateway against at most
\* MaxPodsAndServices pods and services; or one gateway of any shape, or a
\* short sequence of short gateways, against one of the contexts.
InitSnapshot ==
    \/ \E g \in ProbeGateways, P \in SubsetsUpTo(PodUniverse, MaxPodsAndServices) :
          \E S \in SubsetsUpTo(ServiceUniverse,
                               MaxPodsAndServices - Cardinality(P)) :
             /\ gateways = <<g>>
             /\ pods = P
             /\ services = S
    \/ \E g \in GatewayUniverse, c \in Contexts :
          /\ gateways = <<g>>
          /\ pods = c.pods
          /\ services = c.services
    \/ \E gs \in SeqsUpTo(ShortGateways, MaxGateways), c \in Contexts :
          /\ gateways = gs
          /\ pods = c.pods
          /\ services = c.services

Init ==
    /\ InitSnapshot
    /\ defaultIngressGatewayPorts = {80, 443, 31400, 15443}
    /\ pc = "idle"
    /\ gi = 0
    /\ visited = {}
    /\ servicePorts = "local"
    /\ localPorts = {}
    /\ gwSelectorMatches = 0
    /\ si = 1
    /\ reports = <<>>
    /\ evaluated = <<>>
    /\ done = FALSE
    /\ prev = [valid |-> FALSE, reports |-> <<>>, evaluated |-> <<>>]

\* ------------------------------------------------- analyzeGateway
\* gwSelector := k8s_labels.SelectorFromSet(gw.Selector)
gwSelector == SelectorFromSet(gw.selector)

\* l.97-101: servicePorts[uint32(port.Port)] = true for every TCP port.
RECURSIVE AddTCPPorts(_, _, _)
AddTCPPorts(ports, i, acc) ==
    IF i > Len(ports) THEN acc
    ELSE AddTCPPorts(ports, i + 1,
            IF ports[i].protocol = "TCP"
               THEN acc \cup {Uint32(ports[i].port)}
               ELSE acc)

\* Mutant of VisitService: the namespace of the service is not compared.
VisitServiceAnyNamespace(rSvc, pod, acc) ==
    IF Matches(SelectorFromSet(rSvc.selector), pod.labels)
    THEN AddTCPPorts(rSvc.ports, 1, acc)
    ELSE acc

\* l.87-104, the service visitor for one pod: acc is the key set of the map
\* servicePorts refers to.
VisitService(rSvc, pod, acc) ==
    IF rSvc.namespace # pod.namespace THEN acc
    ELSE IF Matches(SelectorFromSet(rSvc.selector), pod.labels)
         THEN AddTCPPorts(rSvc.ports, 1, acc)
    ELSE acc

\* c.ForEach over the services: the visitor on each, in the store's order.
RECURSIVE ForEachService(_, _, _)
ForEachService(rest, pod, acc) ==
    IF rest = {} THEN acc
    ELSE LET rSvc == CHOOSE s \in rest : TRUE
         IN  ForEachService(rest \ {rSvc}, pod, VisitService(rSvc, pod, acc))

\* Mutant of NotSystemSelector: the number of pairs is not looked at.
NotSystemSelectorByKeyOnly ==
    Lookup(gw.selector, "istio") # "ingressgateway"

\* l.115: the selector is not the single pair istio=ingressgateway.
NotSystemSelector ==
    \/ Cardinality(DOMAIN gw.selector) # 1
    \/ Lookup(gw.selector, "istio") # "ingressgateway"

\* Mutant of VisitorContinue: the visitor stops ForEach once something was
\* reported.
VisitorStopsAfterReport == reports = <<>>

\* l.65: what the gateway visitor returns to ForEach.
VisitorContinue == TRUE

\* Analyze is called with an analysis context: the sink starts empty.
Analyze ==
    /\ pc = "idle"
    /\ pc' = "gateways"
    /\ gi' = 0
    /\ reports' = <<>>
    /\ evaluated' = <<>>
    /\ prev' = [valid |-> done, reports |-> reports, evaluated |-> evaluated]
    /\ UNCHANGED <<snapshot, defaultIngressGatewayPorts, visited,
                   servicePorts, localPorts, gwSelectorMatches, si, done>>

\* Mutant of BeginGateway: the match count is not set to zero.
BeginGatewayKeepsCount ==
    /\ pc = "gateways"
    /\ gi < Len(gateways)
    /\ gi' = gi + 1
    /\ servicePorts' = "local"
    /\ localPorts' = {}
    /\ visited' = {}
    /\ si' = 1
    /\ pc' = "pods"
    /\ UNCHANGED <<snapshot, defaultIngressGatewayPorts, gwSelectorMatches,
                   reports, evaluated, done, prev>>

\* Mutant of BeginGateway: servicePorts is not bound to a new map, it keeps
\* referring to the map of the previous call.
BeginGatewayKeepsMap ==
    /\ pc = "gateways"
    /\ gi < Len(gateways)
    /\ gi' = gi + 1
    /\ gwSelectorMatches' = 0
    /\ visited' = {}
    /\ si' = 1
    /\ pc' = "pods"
    /\ UNCHANGED <<snapshot, defaultIngressGatewayPorts, servicePorts,
                   localPorts, reports, evaluated, done, prev>>

\* l.63-64 and l.69-81: ForEach hands the next gateway to the visitor, which
\* calls analyzeGateway: a new empty map and a zero count.
BeginGateway ==
    /\ pc = "gateways"
    /\ gi < Len(gateways)
    /\ gi' = gi + 1
    /\ servicePorts' = "local"
    /\ localPorts' = {}
    /\ gwSelectorMatches' = 0
    /\ visited' = {}
    /\ si' = 1
    /\ pc' = "pods"
    /\ UNCHANGED <<snapshot, defaultIngressGatewayPorts, reports, evaluated,
                   done, prev>>

\* l.82-106: the pod visitor on one pod the ForEach has not yet handed over.
VisitPod(rPod) ==
    /\ pc = "pods"
    /\ rPod \in pods \ visited
    /\ visited' = visited \cup {rPod}
    /\ IF Matches(gwSelector, rPod.labels)
       THEN /\ gwSelectorMatches' = gwSelectorMatches + 1
            /\ LET written == ForEachService(services, rPod, ServicePortsMap)
               IN  IF servicePorts = "default"
                   THEN /\ defaultIngressGatewayPorts' = written
                        /\ UNCHANGED localPorts
                   ELSE /\ localPorts' = written
                        /\ UNCHANGED defaultIngressGatewayPorts
       ELSE UNCHANGED <<gwSelectorMatches, localPorts,
                        defaultIngressGatewayPorts>>
    /\ UNCHANGED <<snapshot, pc, gi, servicePorts, si, reports, evaluated,
                   done, prev>>

\* Mutant of ReportNotFound: the return after the report is missing.
ReportNotFoundNoReturn ==
    /\ pc = "pods"
    /\ visited = pods
    /\ gwSelectorMatches = 0
    /\ NotSystemSelector
    /\ reports' = Append(reports,
          NewReferencedResourceNotFound(gi, "selector",
                                        SelectorString(gwSelector)))
    /\ evaluated' = Append(evaluated,
          [gateway |-> gi, checked |-> FALSE, ports |-> {}])
    /\ pc' = "servers"
    /\ UNCHANGED <<snapshot, defaultIngressGatewayPorts, gi, visited,
                   servicePorts, localPorts, gwSelectorMatches, si, done,
                   prev>>

\* l.109-117: no pod matched and the selector is not the system one.
ReportNotFound ==
    /\ pc = "pods"
    /\ visited = pods
    /\ gwSelectorMatches = 0
    /\ NotSystemSelector
    /\ reports' = Append(reports,
          NewReferencedResourceNotFound(gi, "selector",
                                        SelectorString(gwSelector)))
    /\ evaluated' = Append(evaluated,
          [gateway |-> gi, checked |-> FALSE, ports |-> {}])
    /\ pc' = "returned"
    /\ UNCHANGED <<snapshot, defaultIngressGatewayPorts, gi, visited,
                   servicePorts, localPorts, gwSelectorMatches, si, done,
                   prev>>

\* Mutant of UseDefaultPorts: the assignment of the default table is
\* missing.
UseDefaultPortsUnassigned ==
    /\ pc = "pods"
    /\ visited = pods
    /\ gwSelectorMatches = 0
    /\ ~NotSystemSelector
    /\ evaluated' = Append(evaluated,
          [gateway |-> gi, checked |-> TRUE, ports |-> ServicePortsMap])
    /\ pc' = "servers"
    /\ UNCHANGED <<snapshot, defaultIngressGatewayPorts, gi, visited,
                   servicePorts, localPorts, gwSelectorMatches, si, reports,
                   done, prev>>

\* Mutant of UseDefaultPorts: the fallback is decided on servicePorts being
\* empty, not on the match count.
UseDefaultPortsWhenNoService ==
    /\ pc = "pods"
    /\ visited = pods
    /\ ServicePortsMap = {}
    /\ ~NotSystemSelector
    /\ servicePorts' = "default"
    /\ evaluated' = Append(evaluated,
          [gateway |-> gi, checked |-> TRUE,
           ports |-> defaultIngressGatewayPorts])
    /\ pc' = "servers"
    /\ UNCHANGED <<snapshot, defaultIngressGatewayPorts, gi, visited,
                   localPorts, gwSelectorMatches, si, reports, done, prev>>

\* l.109-120: no pod matched and the selector is the system one:
\* servicePorts = defaultIngressGatewayPorts (the map itself, not a copy).
UseDefaultPorts ==
    /\ pc = "pods"
    /\ visited = pods
    /\ gwSelectorMatches = 0
    /\ ~NotSystemSelector
    /\ servicePorts' = "default"
    /\ evaluated' = Append(evaluated,
          [gateway |-> gi, checked |-> TRUE,
           ports |-> defaultIngressGatewayPorts])
    /\ pc' = "servers"
    /\ UNCHANGED <<snapshot, defaultIngressGatewayPorts, gi, visited,
                   localPorts, gwSelectorMatches, si, reports, done, prev>>

\* l.109 is false: some pod matched.
PortsFound ==
    /\ pc = "pods"
    /\ visited = pods
    /\ gwSelectorMatches # 0
    /\ evaluated' = Append(evaluated,
          [gateway |-> gi, checked |-> TRUE, ports |-> ServicePortsMap])
    /\ pc' = "servers"
    /\ UNCHANGED <<snapshot, defaultIngressGatewayPorts, gi, visited,
                   servicePorts, localPorts, gwSelectorMatches, si, reports,
                   done, prev>>

\* Mutant of CheckServer: the loop is left at the first report.
CheckServerStopsAtFirst ==
    /\ pc = "servers"
    /\ si <= Len(gw.servers)
    /\ LET server == gw.servers[si]
       IN  IF server.port # {}
              /\ (CHOOSE n \in server.port : TRUE) \notin ServicePortsMap
           THEN /\ reports' = Append(reports,
                     NewGatewayPortNotOnWorkload(gi,
                         SelectorString(gwSelector),
                         CHOOSE n \in server.port : TRUE))
                /\ si' = Len(gw.servers) + 1
           ELSE /\ UNCHANGED reports
                /\ si' = si + 1
    /\ UNCHANGED <<snapshot, defaultIngressGatewayPorts, pc, gi, visited,
                   servicePorts, localPorts, gwSelectorMatches, evaluated,
                   done, prev>>

\* l.124-131: one server of gw.Servers.
CheckServer ==
    /\ pc = "servers"
    /\ si <= Len(gw.servers)
    /\ LET server == gw.servers[si]
       IN  IF server.port # {}
              /\ (CHOOSE n \in server.port : TRUE) \notin ServicePortsMap
           THEN reports' = Append(reports,
                   NewGatewayPortNotOnWorkload(gi, SelectorString(gwSelector),
                       CHOOSE n \in server.port : TRUE))
           ELSE UNCHANGED reports
    /\ si' = si + 1
    /\ UNCHANGED <<snapshot, defaultIngressGatewayPorts, pc, gi, visited,
                   servicePorts, localPorts, gwSelectorMatches, evaluated,
                   done, prev>>

\* l.132: the server loop is over, analyzeGateway returns.
EndGateway ==
    /\ pc = "servers"
    /\ si > Len(gw.servers)
    /\ pc' = "returned"
    /\ UNCHANGED <<snapshot, defaultIngressGatewayPorts, gi, visited,
                   servicePorts, localPorts, gwSelectorMatches, si, reports,
                   evaluated, done, prev>>

\* l.65: the gateway visitor returns; ForEach goes on while it returns true.
VisitorReturn ==
    /\ pc = "returned"
    /\ pc' = IF VisitorContinue THEN "gateways" ELSE "idle"
    /\ done' = IF VisitorContinue THEN done ELSE TRUE
    /\ UNCHANGED <<snapshot, defaultIngressGatewayPorts, gi, visited,
                   servicePorts, localPorts, gwSelectorMatches, si, reports,
                   evaluated, prev>>

\* l.66-67: ForEach has visited every gateway, Analyze returns.
EndAnalyze ==
    /\ pc = "gateways"
    /\ gi = Len(gateways)
    /\ pc' = "idle"
    /\ done' = TRUE
    /\ UNCHANGED <<snapshot, defaultIngressGatewayPorts, gi, visited,
                   servicePorts, localPorts, gwSelectorMatches, si, reports,
                   evaluated, prev>>

Next ==
    \/ Analyze
    \/ BeginGateway
    \/ \E rPod \in pods : VisitPod(rPod)
    \/ ReportNotFound
    \/ UseDefaultPorts
    \/ PortsFound
    \/ CheckServer
    \/ EndGateway
    \/ VisitorReturn
    \/ EndAnalyze

Spec == Init /\ [][Next]_vars

\* ---------------------------------------------------------------------
\* What the claims are stated with. Nothing below is used by the actions.

\* Conjunctive label-selector semantics on the maps themselves.
Selects(sel, labels) ==
    \A k \in DOMAIN sel : k \in DOMAIN labels /\ labels[k] = sel[k]

MatchingPods(g) == {p \in pods : Selects(g.selector, p.labels)}

QualifyingServices(g) ==
    {s \in services : \E p \in MatchingPods(g) :
        s.namespace = p.namespace /\ Selects(s.selector, p.labels)}

TCPPortNumbers(s) ==
    {s.ports[j].port : j \in {i \in DOMAIN s.ports : s.ports[i].protocol = "TCP"}}

UnionOfTCPPorts(g) == UNION {TCPPortNumbers(s) : s \in QualifyingServices(g)}

DefaultPorts == {80, 443, 31400, 15443}

\* analyzeGateway has returned for gateway i in the current pass.
Finished(i) ==
    \/ i < gi
    \/ i = gi /\ pc \in {"returned", "gateways", "idle"}

ReportsOf(i) ==
    LET From(r) == r.origin = i IN SelectSeq(reports, From)

KindCount(i, kind) ==
    LET Is(r) == r.kind = kind IN Len(SelectSeq(ReportsOf(i), Is))

NotFoundCount(i) == KindCount(i, "ReferencedResourceNotFound")
PortNotOnWorkloadCount(i) == KindCount(i, "GatewayPortNotOnWorkload")

\* The ports of the GatewayPortNotOnWorkload reports of gateway i, in order.
ReportedPorts(i) ==
    LET Is(r) == r.kind = "GatewayPortNotOnWorkload"
        q == SelectSeq(ReportsOf(i), Is)
    IN  [j \in 1..Len(q) |-> q[j].port]

\* The declared ports of servers that are not in ports, in server order.
UncoveredPorts(servers, ports) ==
    LET Is(sv) == sv.port # {} /\ sv.port \cap ports = {}
        q == SelectSeq(servers, Is)
    IN  [j \in 1..Len(q) |-> CHOOSE n \in q[j].port : TRUE]

DeclaredPorts(servers) == UncoveredPorts(servers, {})

\* C1: for a gateway with at least one matching workload, the port set the
\* server check runs against is exactly the union of the TCP port numbers of
\* the services that, in the namespace of a matching workload, select it.
C1_ServicePortsIsUnion ==
    /\ (pc = "servers" /\ MatchingPods(gw) # {})
          => ServicePortsMap = UnionOfTCPPorts(gw)
    /\ \A k \in DOMAIN evaluated :
          MatchingPods(gateways[evaluated[k].gateway]) # {}
             => /\ evaluated[k].checked
                /\ evaluated[k].ports
                      = UnionOfTCPPorts(gateways[evaluated[k].gateway])

\* Two services select the matching workload in its namespace, one with TCP
\* 80 only, the other with TCP 8080 and a UDP port: the set is their union.
C1_Witness ==
    /\ pc = "servers"
    /\ MatchingPods(gw) # {}
    /\ ServicePortsMap = {80, 8080}
    /\ \E s1, s2 \in QualifyingServices(gw) :
          /\ TCPPortNumbers(s1) = {80}
          /\ TCPPortNumbers(s2) = {8080}
          /\ \E j \in DOMAIN s2.ports : s2.ports[j].protocol = "UDP"

\* C2: a gateway with no matching workload and a selector other than
\* istio=ingressgateway gets exactly one ReferencedResourceNotFound and no
\* GatewayPortNotOnWorkload.
C2_NotFoundOnly ==
    \A i \in DOMAIN gateways :
        (/\ Finished(i)
         /\ MatchingPods(gateways[i]) = {}
         /\ gateways[i].selector # SysLabels)
        => /\ NotFoundCount(i) = 1
           /\ PortNotOnWorkloadCount(i) = 0
           /\ Len(ReportsOf(i)) = 1

\* Such a gateway, with a server that declares a port and with pods and
\* services in the snapshot, has been evaluated.
C2_Witness ==
    \E i \in DOMAIN gateways :
        /\ Finished(i)
        /\ MatchingPods(gateways[i]) = {}
        /\ gateways[i].selector = AppLabels
        /\ DeclaredPorts(gateways[i].servers) # <<>>
        /\ pods # {}
        /\ services # {}

\* C3: a gateway with no matching workload and the selector
\* istio=ingressgateway gets no ReferencedResourceNotFound, and a
\* GatewayPortNotOnWorkload for exactly the servers whose declared port is
\* not one of 80, 443, 31400, 15443, whatever the services are.
C3_DefaultPortsOnly ==
    \A i \in DOMAIN gateways :
        (/\ Finished(i)
         /\ MatchingPods(gateways[i]) = {}
         /\ gateways[i].selector = SysLabels)
        => /\ NotFoundCount(i) = 0
           /\ ReportedPorts(i) = UncoveredPorts(gateways[i].servers, DefaultPorts)
           /\ Len(ReportsOf(i)) = Len(ReportedPorts(i))

\* The fallback was taken with a service exposing TCP 8080 in the snapshot:
\* 8080 is reported, the port of the table is not.
C3_Witness ==
    \E i \in DOMAIN gateways :
        /\ Finished(i)
        /\ MatchingPods(gateways[i]) = {}
        /\ gateways[i].selector = SysLabels
        /\ \E s \in services : 8080 \in TCPPortNumbers(s)
        /\ \E j, k \in DOMAIN gateways[i].servers :
              /\ gateways[i].servers[j].port = {8080}
              /\ gateways[i].servers[k].port \cap DefaultPorts # {}
        /\ ReportedPorts(i) = <<8080>>

\* C4: once the server check is reached, the GatewayPortNotOnWorkload
\* reports are, in server order, one per server that declares a port outside
\* servicePorts: after each iteration for the servers checked so far, and
\* at the end for all of them. A server without a port reports nothing.
C4_OnePerUncoveredServer ==
    /\ pc = "servers"
          => /\ evaluated # <<>>
             /\ evaluated[Len(evaluated)].ports = ServicePortsMap
             /\ ReportedPorts(gi)
                   = UncoveredPorts(SubSeq(gw.servers, 1, si - 1),
                                    ServicePortsMap)
    /\ \A i \in DOMAIN gateways :
          (Finished(i) /\ i \in DOMAIN evaluated /\ evaluated[i].checked)
          => ReportedPorts(i)
                = UncoveredPorts(gateways[i].servers, evaluated[i].ports)

\* Two servers declare the same uncovered port: two reports.
C4_Witness ==
    \E i \in DOMAIN gateways :
        /\ Finished(i)
        /\ i \in DOMAIN evaluated
        /\ evaluated[i].checked
        /\ evaluated[i].ports # {}
        /\ Len(gateways[i].servers) = 2
        /\ gateways[i].servers[1] = gateways[i].servers[2]
        /\ Len(ReportedPorts(i)) = 2

\* What evaluating gateway g, the i-th of the snapshot, reports: a function
\* of g, the pods and the services alone.
SelectorText(sel) == SelectorString(SelectorFromSet(sel))

PortReports(g, i, ports) ==
    LET u == UncoveredPorts(g.servers, ports)
    IN  [j \in 1..Len(u) |->
            NewGatewayPortNotOnWorkload(i, SelectorText(g.selector), u[j])]

ExpectedReports(g, i) ==
    IF MatchingPods(g) # {} THEN PortReports(g, i, UnionOfTCPPorts(g))
    ELSE IF g.selector = SysLabels THEN PortReports(g, i, DefaultPorts)
    ELSE <<NewReferencedResourceNotFound(i, "selector",
                                         SelectorText(g.selector))>>

RECURSIVE ExpectedUpTo(_)
ExpectedUpTo(n) ==
    IF n = 0 THEN <<>>
    ELSE ExpectedUpTo(n - 1) \o ExpectedReports(gateways[n], n)

EvaluatedGateways == [k \in DOMAIN evaluated |-> evaluated[k].gateway]

\* C5: a pass evaluates every gateway once, in order, whatever was reported
\* before; its output is the concatenation of what each gateway reports on
\* its own, and every evaluation starts from the same local state.
C5_PassIsConcatenation ==
    /\ pc = "gateways"
          => /\ reports = ExpectedUpTo(gi)
             /\ EvaluatedGateways = [k \in 1..gi |-> k]
    /\ (pc = "idle" /\ done)
          => /\ reports = ExpectedUpTo(Len(gateways))
             /\ EvaluatedGateways = [k \in 1..Len(gateways) |-> k]
    /\ (pc = "pods" /\ visited = {})
          => /\ servicePorts = "local"
             /\ localPorts = {}
             /\ gwSelectorMatches = 0

\* A pass over two gateways has finished: the first reported
\* ReferencedResourceNotFound, the second GatewayPortNotOnWorkload.
C5_Witness ==
    /\ pc = "idle"
    /\ done
    /\ Len(gateways) = 2
    /\ NotFoundCount(1) = 1
    /\ PortNotOnWorkloadCount(2) = 1

\* C6: a second pass over the unchanged snapshot reports the same
\* diagnostics and builds the same port set for every gateway, in whatever
\* order the pods were visited.
C6_Idempotent ==
    (pc = "idle" /\ prev.valid)
       => /\ reports = prev.reports
          /\ evaluated = prev.evaluated

\* Two passes have finished over a snapshot with two pods, a port set built
\* from two services and a diagnostic.
C6_Witness ==
    /\ pc = "idle"
    /\ prev.valid
    /\ reports # <<>>
    /\ Cardinality(pods) = 2
    /\ \E k \in DOMAIN evaluated : evaluated[k].ports = {80, 8080}

\* C7: the default table always holds exactly 80, 443, 31400, 15443, and
\* while servicePorts refers to it the set servicePorts denotes does not
\* change.
C7_DefaultTableImmutable ==
    [][/\ defaultIngressGatewayPorts = DefaultPorts
       /\ defaultIngressGatewayPorts' = DefaultPorts
       /\ (servicePorts = "default" /\ servicePorts' = "default")
             => ServicePortsMap' = ServicePortsMap]_vars

\* In a second pass, the second gateway has taken the fallback (servicePorts
\* is the table itself) after the first collected a service port.
C7_Witness ==
    /\ prev.valid
    /\ pc = "servers"
    /\ gi = 2
    /\ servicePorts = "default"
    /\ evaluated[1].checked
    /\ evaluated[1].ports = {8080}

\* C8: with no matching workload, a selector that holds istio=ingressgateway
\* and another key, or istio with another value, or nothing, does not take
\* the fallback: one ReferencedResourceNotFound naming the selector, and the
\* server ports are not checked.
C8_NearMissesAreNotFound ==
    \A i \in DOMAIN gateways :
        (/\ Finished(i)
         /\ MatchingPods(gateways[i]) = {}
         /\ gateways[i].selector \in {SysAppLabels, OtherLabels, EmptyLabels})
        => /\ i \in DOMAIN evaluated
           /\ ~evaluated[i].checked
           /\ ReportsOf(i)
                 = <<[kind |-> "ReferencedResourceNotFound", origin |-> i,
                      reftype |-> "selector",
                      selector |->
                         IF gateways[i].selector = SysAppLabels
                            THEN "app=gw,istio=ingressgateway"
                         ELSE IF gateways[i].selector = OtherLabels
                            THEN "istio=other"
                         ELSE "",
                      port |-> 0]>>

\* A gateway selecting app=gw,istio=ingressgateway with a server on port 80
\* and no matching pod among the pods has been evaluated.
C8_Witness ==
    \E i \in DOMAIN gateways :
        /\ Finished(i)
        /\ MatchingPods(gateways[i]) = {}
        /\ gateways[i].selector = SysAppLabels
        /\ \E j \in DOMAIN gateways[i].servers :
              gateways[i].servers[j].port = {80}
        /\ pods # {}

C10_EmptySelectorsMatchAll ==
    /\ (pc = "pods" /\ visited = pods /\ gw.selector = EmptyLabels)
          => gwSelectorMatches = Cardinality(pods)
    /\ \A i \in DOMAIN gateways :
          (Finished(i) /\ gateways[i].selector = EmptyLabels)
          => NotFoundCount(i) = (IF pods = {} THEN 1 ELSE 0)
    /\ \A k \in DOMAIN evaluated :
          \A s \in services, p \in MatchingPods(gateways[evaluated[k].gateway]) :
             (s.selector = EmptyLabels /\ s.namespace = p.namespace)
             => TCPPortNumbers(s) \subseteq evaluated[k].ports

\* A gateway with an empty selector was evaluated against a pod of another
\* namespace than its own and a service with an empty selector there.
C10_Witness ==
    \E i \in DOMAIN gateways :
        /\ Finished(i)
        /\ gateways[i].selector = EmptyLabels
        /\ \E p \in pods, s \in services :
              /\ p.namespace # gateways[i].namespace
              /\ s.selector = EmptyLabels
              /\ s.namespace = p.namespace
              /\ TCPPortNumbers(s) # {}
              /\ TCPPortNumbers(s) \subseteq evaluated[i].ports

====
